---- MODULE Spec2Model ----
(***************************************************************************)
(* A model of the fastdl mirroring tool: scrape_web (a wave-synchronised   *)
(* breadth-first crawl run by one thread per path), download_files (one    *)
(* unit per link on the rayon pool, retrying for ever) and decode_files    *)
(* (one unit per *.bz2 file on the rayon pool), sequenced by main.         *)
(*                                                                         *)
(* Strings are sequences of one-character strings, so that contains,       *)
(* ends_with, replace and the regular expression of dl_url_paths are       *)
(* computed on characters, as the code computes them.                      *)
(***************************************************************************)
EXTENDS Naturals, Sequences, FiniteSets

(***************************************************************************)
(* String helpers (std::str).                                              *)
(***************************************************************************)
Range(s) == {s[i] : i \in 1..Len(s)}

\* str::contains
Contains(s, sub) ==
    \E i \in 1..(Len(s) + 1) :
        /\ i + Len(sub) - 1 <= Len(s)
        /\ SubSeq(s, i, i + Len(sub) - 1) = sub

\* str::ends_with
EndsWith(s, suf) ==
    /\ Len(s) >= Len(suf)
    /\ SubSeq(s, Len(s) - Len(suf) + 1, Len(s)) = suf

\* let mut c = s.chars(); c.next_back(); c.as_str().to_string()
ChopLast(s) == IF s = <<>> THEN <<>> ELSE SubSeq(s, 1, Len(s) - 1)

\* str::replace(pat, rep): every non-overlapping match, leftmost first
RECURSIVE Replace(_, _, _)
Replace(s, pat, rep) ==
    IF Len(s) < Len(pat) THEN s
    ELSE IF SubSeq(s, 1, Len(pat)) = pat
         THEN rep \o Replace(SubSeq(s, Len(pat) + 1, Len(s)), pat, rep)
         ELSE <<s[1]>> \o Replace(Tail(s), pat, rep)

\* str::replace of one character by one character
ReplaceChar(s, a, b) == [i \in 1..Len(s) |-> IF s[i] = a THEN b ELSE s[i]]

\* str::trim, on the blank
RECURSIVE TrimStart(_)
TrimStart(s) == IF s # <<>> /\ s[1] = " " THEN TrimStart(Tail(s)) ELSE s

RECURSIVE TrimEnd(_)
TrimEnd(s) ==
    IF s # <<>> /\ s[Len(s)] = " " THEN TrimEnd(SubSeq(s, 1, Len(s) - 1)) ELSE s

Trim(s) == TrimEnd(TrimStart(s))

\* the positions of character c in s
Positions(s, c) == {i \in 1..Len(s) : s[i] = c}

Min(S) == CHOOSE x \in S : \A y \in S : x <= y
Max(S) == CHOOSE x \in S : \A y \in S : x >= y

(***************************************************************************)
(* The markers of the link filter and of the classification.               *)
(***************************************************************************)
REDIRECT_LINK == <<"g","f","l","f","a","s","t","d","l","v","2">>
INDEX_HTML == <<"i","n","d","e","x",".","h","t","m","l">>
DOT_TMP == <<".","t","m","p">>
DOT_ZTMP == <<".","z","t","m","p">>
MAPS_DIR == <<"m","a","p","s","/">>
ZE_PREFIX == <<"z","e","_">>
BZ2_SUFFIX == <<".","b","z","2">>
SLASH == <<"/">>
BACKSLASH == <<"\\">>

(***************************************************************************)
(* URLs (url::Url): scheme "://" host path.                                *)
(***************************************************************************)
MkUrl(scheme, host, path) == scheme \o <<":","/","/">> \o host \o path

\* the path made of the segments segs, each after a "/"
RECURSIVE PathOf(_)
PathOf(segs) ==
    IF segs = <<>> THEN <<>> ELSE SLASH \o Head(segs) \o PathOf(Tail(segs))

\* Url::parse(dl_url).path(): from the first "/" after "://"
UrlPath(u) ==
    LET a == Min({i \in 1..(Len(u) - 2) : SubSeq(u, i, i + 2) = <<":","/","/">>})
        b == Min({i \in (a + 3)..Len(u) : u[i] = "/"})
    IN  SubSeq(u, b, Len(u))

\* &url[..Position::BeforePath]
UrlOrigin(u) ==
    LET a == Min({i \in 1..(Len(u) - 2) : SubSeq(u, i, i + 2) = <<":","/","/">>})
        b == Min({i \in (a + 3)..Len(u) : u[i] = "/"})
    IN  SubSeq(u, 1, b - 1)

\* Url::parse(format!("{}{}", dl_url, "..")).path() for a dl_url that ends
\* with "/": the last segment is removed, the trailing "/" is kept
ParentPath(p) ==
    LET q == ChopLast(p)
    IN  IF Positions(q, "/") = {} THEN SLASH
        ELSE SubSeq(q, 1, Max(Positions(q, "/")))

(***************************************************************************)
(* The remote host.  The configured root (main) is abbreviated to          *)
(* h://d/c/s/; every page is served by the root's host.  A link is the     *)
(* URL the probe of an anchor ends at (header.url()).                      *)
(***************************************************************************)
SCHEME == <<"h">>
HOST == <<"d">>
DL_URL == <<"h",":","/","/","d","/","c","/","s","/">>

P_ROOT == <<"/","c","/","s","/">>
P_PARENT == <<"/","c","/">>
P_AB == <<"/","c","/","s","/","a","b">>
P_A == <<"/","c","/","s","/","a">>
P_D == <<"/","c","/","s","/","d","/">>
P_E == <<"/","c","/","s","/","d","/","e","/">>
P_TMP == <<"/","c","/","s","/","d","/","e","/","x",".","t","m","p">>
P_MIRROR == <<"/","c","/","g","f","l","f","a","s","t","d","l","v","2","/">>
P_M == <<"/","c","/","g","f","l","f","a","s","t","d","l","v","2","/","m",".","b","z","2">>
P_F == <<"/","c","/","g","f","l","f","a","s","t","d","l","v","2","/","f">>
P_Z == <<"/","c","/","s","/","m","a","p","s","/","z","e","_","x">>

Link(path) == [scheme |-> SCHEME, host |-> HOST, path |-> path]

\* the anchors of the listing page at `path`, each as the URL its probe ends at
RemoteLinks(path) ==
    CASE path = P_ROOT -> <<Link(P_PARENT), Link(P_AB), Link(P_A), Link(P_D),
                            Link(P_D), Link(P_ROOT)>>
      [] path = P_A -> <<Link(P_F)>>
      [] path = P_D -> <<Link(P_M), Link(P_MIRROR), Link(P_E)>>
      [] path = P_E -> <<Link(P_Z), Link(P_TMP), Link(P_D)>>
      [] OTHER -> <<>>

\* the root page declares no <base href>
RootDocBase == <<>>

(***************************************************************************)
(* The program state.                                                      *)
(***************************************************************************)
VARIABLES
    mainpc,           \* main's position
    visited_paths,    \* scrape_web: Arc<Mutex<HashSet<String>>>
    unvisited_paths,  \* scrape_web: Mutex<VecDeque<String>>
    download_links,   \* scrape_web: Arc<RwLock<HashSet<String>>>, url -> copies
    handler,          \* scrape_web: the JoinHandles of the wave, as thread ids
    threads,          \* the threads spawned by scrape_web
    remaining,        \* iterations left of `for _ in 0..unvisited_len`
    wave,             \* the iteration of the outer loop
    fetched,          \* the listing paths the host has served to crawl threads
    crawl_error,      \* a fetch or a probe of the crawl has failed
    dl_links,         \* main: the value scrape_web returned
    dl_units,         \* download_files: the for_each closure of each item
    unreachable,      \* the URLs whose fetch fails for ever
    fs,               \* the local files under the working directory
    dirs,             \* decode_files: the entries collected by WalkDir
    dec_units,        \* decode_files: the for_each closure of each entry
    corrupt_files     \* main: Mutex<HashSet<String>>

crawlVars == <<visited_paths, unvisited_paths, download_links, handler, threads,
               remaining, wave, fetched, crawl_error>>
dlVars == <<dl_links, dl_units, unreachable>>
decVars == <<dirs, dec_units, corrupt_files>>
vars == <<mainpc, crawlVars, dlVars, fs, decVars>>

NONE == "none"
EmptySet == <<>>

\* main's binding of the value scrape_web returns: unbound, or bound to x
Nothing == <<>>
Some(x) == <<x>>
Returned == dl_links[1]

\* HashSet::contains on the representation url -> copies
Members(h) == DOMAIN h

\* a Vec::push in place of the insert: a present value gets another copy
HashSetInsertDup(h, x) ==
    [y \in DOMAIN h \cup {x} |->
        IF y = x THEN (IF x \in DOMAIN h THEN h[x] + 1 ELSE 1) ELSE h[y]]

\* HashSet::insert: inserting a present value changes nothing
HashSetInsert(h, x) ==
    IF x \in DOMAIN h THEN h
    ELSE [y \in DOMAIN h \cup {x} |-> IF y = x THEN 1 ELSE h[y]]

(***************************************************************************)
(* The link filter and the classification of scrape_web.                   *)
(***************************************************************************)
\* conditions 2-4 of the filter
NoMarker(path) ==
    /\ ~Contains(path, INDEX_HTML)
    /\ ~Contains(path, DOT_TMP)
    /\ ~Contains(path, DOT_ZTMP)

\* the first branch: the path joins the thread's new_paths
IsRecurse(path) == ~Contains(path, REDIRECT_LINK) /\ ~Contains(path, MAPS_DIR)

\* the condition of the else-if branch
DownloadCond(path) ==
    \/ /\ Contains(path, REDIRECT_LINK)
       /\ ~EndsWith(path, SLASH)
       /\ ~Contains(path, MAPS_DIR)
    \/ Contains(path, MAPS_DIR) /\ Contains(path, ZE_PREFIX)

IsDownload(path) == ~IsRecurse(path) /\ DownloadCond(path)

\* the segments and the number of segments of the paths a probe is tried on
MaxSegs == 3

Segments ==
    {<<"c">>, REDIRECT_LINK, <<"m","a","p","s">>, <<"z","e","_","x">>,
     INDEX_HTML, <<"x">> \o DOT_TMP, <<"y">> \o DOT_ZTMP}

\* the paths of files and of directories made of the segments
ProbePaths ==
    LET S == UNION {[1..n -> Segments] : n \in 1..MaxSegs}
    IN  {PathOf(ss) : ss \in S} \cup {PathOf(ss) \o SLASH : ss \in S}

\* the paths of the host
HostPaths ==
    {P_ROOT, P_PARENT, P_AB, P_A, P_D, P_E, P_TMP, P_MIRROR, P_M, P_F,
     P_Z}

\* the tests of lines 185-195 on each path, computed once
link_class ==
    [p \in HostPaths \cup ProbePaths |->
        [no_marker |-> NoMarker(p), recurse |-> IsRecurse(p),
         download |-> IsDownload(p)]]

\* the filter without its conditions 2-4
PassesFilterVisitedOnly(visited, path) == path \notin visited

PassesFilter(visited, path) == path \notin visited /\ link_class[path].no_marker

\* push_front without the test of the first branch
NewPathsAfterUnclassified(visited, buf, l) ==
    IF PassesFilter(visited, l.path) THEN <<l.path>> \o buf ELSE buf

\* new_paths after the probe of link l: push_front in the first branch
NewPathsAfter(visited, buf, l) ==
    IF PassesFilter(visited, l.path) /\ link_class[l.path].recurse
    THEN <<l.path>> \o buf
    ELSE buf

\* download_links after the probe of link l: insert(next_site) in the second
DownloadLinksAfter(visited, links, l) ==
    IF PassesFilter(visited, l.path) /\ link_class[l.path].download
    THEN HashSetInsert(links, MkUrl(l.scheme, l.host, l.path))
    ELSE links

\* get_base_url: the <base href> of the root page, else the root's origin
GetBaseUrl(url, base) == IF base = <<>> THEN UrlOrigin(url) ELSE base

\* reqwest::blocking::get(url).text() then Document::find(Name("a")): the
\* anchors of the page the host serves at url
FetchLinks(url) == RemoteLinks(UrlPath(url))

\* line 113: base_url, the same in every iteration
base_url == GetBaseUrl(DL_URL, RootDocBase)

\* the anchors and the path of each URL of the host, computed once
fetch_links == [u \in {base_url \o p : p \in HostPaths} |-> FetchLinks(u)]
url_path == [u \in {base_url \o p : p \in HostPaths} |-> UrlPath(u)]

(***************************************************************************)
(* scrape_web: the orchestrating loop (run by main's thread).              *)
(***************************************************************************)
NewThread(path) ==
    [wave |-> wave, curr_path |-> path, pc |-> "insert1", links |-> <<>>,
     todo |-> {}, new_paths |-> <<>>, joined |-> FALSE]

\* the thread's closure has returned its new_paths
Finished(t) == threads[t].pc = "probe" /\ threads[t].todo = {}

\* join returning before the thread has ended
JoinOutcomeNoWait(t) == IF threads[t].pc = "panicked" THEN "panic" ELSE "ok"

\* join swallowing the panic of the thread (no unwrap)
JoinOutcomeIgnorePanic(t) ==
    IF threads[t].pc = "panicked" \/ Finished(t) THEN "ok" ELSE "wait"

\* t.join().unwrap(): blocks until the thread ends, panics if it panicked
JoinOutcome(t) ==
    IF threads[t].pc = "panicked" THEN "panic"
    ELSE IF Finished(t) THEN "ok"
    ELSE "wait"

\* the seeds without the second spelling of the parent (line 70 left out)
SeedVisitedNoAlt == {SLASH, ParentPath(UrlPath(DL_URL))}

SeedVisited == {SLASH, ParentPath(UrlPath(DL_URL)), ChopLast(ParentPath(UrlPath(DL_URL)))}

\* lines 49-81, the root page is fetched
ScrapeStart ==
    /\ mainpc = "scrape"
    /\ visited_paths' = SeedVisited
    /\ unvisited_paths' = <<UrlPath(DL_URL)>>
    /\ mainpc' = "loop"
    /\ UNCHANGED <<download_links, handler, threads, remaining, wave, fetched,
                   crawl_error, dlVars, fs, decVars>>

\* line 73: the fetch of the root page fails, `?` returns the error and
\* main's unwrap (line 462) panics
ScrapeStartFail ==
    /\ mainpc = "scrape"
    /\ visited_paths' = SeedVisited
    /\ crawl_error' = TRUE
    /\ mainpc' = "aborted"
    /\ UNCHANGED <<unvisited_paths, download_links, handler, threads, remaining,
                   wave, fetched, dlVars, fs, decVars>>

\* lines 84-95: the frontier is not empty, a wave begins
LoopEnter ==
    /\ mainpc = "loop"
    /\ unvisited_paths # <<>>
    /\ handler' = <<>>
    /\ remaining' = Len(unvisited_paths)
    /\ wave' = wave + 1
    /\ mainpc' = "dispatch"
    /\ UNCHANGED <<visited_paths, unvisited_paths, download_links, threads,
                   fetched, crawl_error, dlVars, fs, decVars>>

\* lines 100-106: pop_back, the path is visited already: continue
DispatchSkip ==
    /\ mainpc = "dispatch"
    /\ remaining > 0
    /\ LET curr_path == unvisited_paths[Len(unvisited_paths)]
       IN  /\ curr_path \in visited_paths
           /\ unvisited_paths' = SubSeq(unvisited_paths, 1, Len(unvisited_paths) - 1)
           /\ remaining' = remaining - 1
    /\ UNCHANGED <<mainpc, visited_paths, download_links, handler, threads, wave,
                   fetched, crawl_error, dlVars, fs, decVars>>

\* lines 100-223: pop_back, the path is not visited: a thread is spawned
DispatchSpawn ==
    /\ mainpc = "dispatch"
    /\ remaining > 0
    /\ LET curr_path == unvisited_paths[Len(unvisited_paths)]
       IN  /\ curr_path \notin visited_paths
           /\ unvisited_paths' = SubSeq(unvisited_paths, 1, Len(unvisited_paths) - 1)
           /\ remaining' = remaining - 1
           /\ threads' = Append(threads, NewThread(curr_path))
           /\ handler' = Append(handler, Len(threads) + 1)
    /\ UNCHANGED <<mainpc, visited_paths, download_links, wave, fetched,
                   crawl_error, dlVars, fs, decVars>>

\* line 98: the for loop ends
DispatchEnd ==
    /\ mainpc = "dispatch"
    /\ remaining = 0
    /\ mainpc' = "join"
    /\ UNCHANGED <<crawlVars, dlVars, fs, decVars>>

\* lines 227-235: the next handle is joined and its buffer appended
JoinOk ==
    /\ mainpc = "join"
    /\ handler # <<>>
    /\ LET t == Head(handler)
       IN  /\ JoinOutcome(t) = "ok"
           /\ unvisited_paths' = unvisited_paths \o threads[t].new_paths
           /\ threads' = [threads EXCEPT ![t].joined = TRUE,
                                         ![t].new_paths = <<>>]
    /\ handler' = Tail(handler)
    /\ UNCHANGED <<mainpc, visited_paths, download_links, remaining, wave,
                   fetched, crawl_error, dlVars, fs, decVars>>

\* line 228: the joined thread panicked, unwrap panics in main's thread and
\* the process ends with all it held
JoinPanic ==
    /\ mainpc = "join"
    /\ handler # <<>>
    /\ JoinOutcome(Head(handler)) = "panic"
    /\ mainpc' = "aborted"
    /\ visited_paths' = {}
    /\ unvisited_paths' = <<>>
    /\ handler' = <<>>
    /\ threads' = <<>>
    /\ remaining' = 0
    /\ fetched' = {}
    /\ UNCHANGED <<download_links, wave, crawl_error, dlVars, fs, decVars>>

\* line 227: every handle is joined, back to the loop test
JoinEnd ==
    /\ mainpc = "join"
    /\ handler = <<>>
    /\ mainpc' = "loop"
    /\ UNCHANGED <<crawlVars, dlVars, fs, decVars>>

(***************************************************************************)
(* scrape_web: the thread spawned for one path of the wave.                *)
(***************************************************************************)
Running == mainpc \in {"dispatch", "join", "loop"}

\* the thread going on without the insert of curr_path
ThreadInsertNothing(t) ==
    /\ Running
    /\ threads[t].pc = "insert1"
    /\ threads' = [threads EXCEPT ![t].pc = "insert2"]
    /\ UNCHANGED <<mainpc, visited_paths, unvisited_paths, download_links, handler,
                   remaining, wave, fetched, crawl_error, dlVars, fs, decVars>>

\* line 134-137: visited_paths.insert(curr_path)
ThreadInsert(t) ==
    /\ Running
    /\ threads[t].pc = "insert1"
    /\ visited_paths' = visited_paths \cup {threads[t].curr_path}
    /\ threads' = [threads EXCEPT ![t].pc = "insert2"]
    /\ UNCHANGED <<mainpc, unvisited_paths, download_links, handler, remaining,
                   wave, fetched, crawl_error, dlVars, fs, decVars>>

\* lines 127-131, 138: visited_paths.insert(curr_path_alt)
ThreadInsertAlt(t) ==
    /\ Running
    /\ threads[t].pc = "insert2"
    /\ visited_paths' = visited_paths \cup {ChopLast(threads[t].curr_path)}
    /\ threads' = [threads EXCEPT ![t].pc = "get"]
    /\ UNCHANGED <<mainpc, unvisited_paths, download_links, handler, remaining,
                   wave, fetched, crawl_error, dlVars, fs, decVars>>

\* lines 147-160: the listing page is fetched and its anchors collected
ThreadGet(t) ==
    /\ Running
    /\ threads[t].pc = "get"
    /\ LET url == base_url \o threads[t].curr_path
       IN  /\ threads' = [threads EXCEPT ![t].pc = "probe",
                                         ![t].links = fetch_links[url],
                                         ![t].todo = 1..Len(fetch_links[url])]
           /\ fetched' = fetched \cup {url_path[url]}
    /\ UNCHANGED <<mainpc, visited_paths, unvisited_paths, download_links,
                   handler, remaining, wave, crawl_error, dlVars, fs, decVars>>

\* lines 150-153: the fetch fails, unwrap panics in the thread
ThreadGetFail(t) ==
    /\ Running
    /\ threads[t].pc = "get"
    /\ threads' = [threads EXCEPT ![t].pc = "panicked", ![t].links = <<>>,
                                  ![t].todo = {}, ![t].new_paths = <<>>]
    /\ crawl_error' = TRUE
    /\ UNCHANGED <<mainpc, visited_paths, unvisited_paths, download_links,
                   handler, remaining, wave, fetched, dlVars, fs, decVars>>

\* lines 167-216: one item of the parallel for_each: the probe, the filter,
\* the classification
ThreadProbe(t, i) ==
    /\ Running
    /\ threads[t].pc = "probe"
    /\ i \in threads[t].todo
    /\ LET l == threads[t].links[i]
       IN  /\ threads' = [threads EXCEPT
                  ![t].todo = @ \ {i},
                  ![t].new_paths = NewPathsAfter(visited_paths, @, l)]
           /\ download_links' = DownloadLinksAfter(visited_paths, download_links, l)
    /\ UNCHANGED <<mainpc, visited_paths, unvisited_paths, handler, remaining,
                   wave, fetched, crawl_error, dlVars, fs, decVars>>

\* lines 171-172: the probe fails, unwrap panics; rayon carries the panic to
\* the thread that called for_each
ThreadProbeFail(t, i) ==
    /\ Running
    /\ threads[t].pc = "probe"
    /\ i \in threads[t].todo
    /\ threads' = [threads EXCEPT ![t].pc = "panicked", ![t].links = <<>>,
                                  ![t].todo = {}, ![t].new_paths = <<>>]
    /\ crawl_error' = TRUE
    /\ UNCHANGED <<mainpc, visited_paths, unvisited_paths, download_links,
                   handler, remaining, wave, fetched, dlVars, fs, decVars>>

\* line 242: the frontier is empty, scrape_web returns download_links and
\* its other locals are dropped
ScrapeReturn ==
    /\ mainpc = "loop"
    /\ unvisited_paths = <<>>
    /\ dl_links' = Some(download_links)
    /\ download_links' = EmptySet
    /\ visited_paths' = {}
    /\ threads' = <<>>
    /\ fetched' = {}
    /\ wave' = 0
    /\ mainpc' = "download"
    /\ UNCHANGED <<unvisited_paths, handler, remaining, crawl_error,
                   dl_units, unreachable, fs, decVars>>

(***************************************************************************)
(* download_files.  par_iter().for_each runs the closure of each item on   *)
(* the rayon pool: at most NumWorkers closures run at a time, and a        *)
(* closure keeps its worker until it returns.                              *)
(***************************************************************************)
\* the threads of the rayon pool (the machine's logical CPUs)
NumWorkers == 2

\* the failed attempts a download unit counts
MaxFails == 2

CWD == <<".">>

NoMatch == [matched |-> FALSE]

\* Regex::new("(.+?)//(.+?)/(.*+)/(.*+)").captures(dl_url): the leftmost
\* match; groups 1 and 2 as short as they can be, group 3 as long as it can
Captures(u) ==
    LET I == {i \in 2..(Len(u) - 1) :
                 /\ u[i] = "/" /\ u[i + 1] = "/"
                 /\ \E j \in (i + 3)..Len(u) :
                       u[j] = "/" /\ \E k \in (j + 1)..Len(u) : u[k] = "/"}
    IN  IF I = {} THEN NoMatch
        ELSE LET i == Min(I)
                 j == Min({x \in (i + 3)..Len(u) :
                              u[x] = "/" /\ \E k \in (x + 1)..Len(u) : u[k] = "/"})
                 k == Max({x \in (j + 1)..Len(u) : u[x] = "/"})
             IN  [matched |-> TRUE,
                  g1 |-> SubSeq(u, 1, i - 1),
                  g2 |-> SubSeq(u, i + 2, j - 1),
                  g3 |-> SubSeq(u, j + 1, k - 1),
                  g4 |-> SubSeq(u, k + 1, Len(u))]

\* dl_url_paths: (dir_path, file_path)
DlUrlPaths(u) ==
    LET c == Captures(u)
        dir == ReplaceChar(c.g3, "/", "\\")
        dir_path == CWD \o BACKSLASH \o dir
    IN  [dir_path |-> dir_path, file_path |-> dir_path \o BACKSLASH \o c.g4]

\* the URLs of the host
HostUrls == {MkUrl(SCHEME, HOST, p) : p \in HostPaths}

\* the directory segments a download link may have
MaxDirs == 2

\* the URLs scheme://host/s1/.../sk/name of up to MaxDirs directory segments
DerivUrls ==
    {MkUrl(SCHEME, HOST, PathOf(ds \o <<name>>)) :
        ds \in UNION {[1..k -> {<<"c">>, <<"s">>, REDIRECT_LINK}] : k \in 0..MaxDirs},
        name \in {<<"f">>, <<"m">> \o BZ2_SUFFIX}}

\* lines 255-268 on each URL: the paths, or Nothing where captures(dl_url)
\* is None
dl_url_paths ==
    [u \in HostUrls \cup DerivUrls |->
        IF Captures(u).matched THEN Some(DlUrlPaths(u)) ELSE Nothing]

\* the body the host serves for a link: a bzip2 stream for *.bz2
Body(u) == [z |-> EndsWith(u, BZ2_SUFFIX), ok |-> TRUE, id |-> u]

FsWrite(f, path, content) ==
    [q \in DOMAIN f \cup {path} |-> IF q = path THEN content ELSE f[q]]

FsRemove(f, path) == [q \in DOMAIN f \ {path} |-> f[q]]

\* the items par_iter yields: one per copy of a member
Items(links) == UNION {{<<u, n>> : n \in 1..links[u]} : u \in DOMAIN links}

ActiveDl ==
    {it \in DOMAIN dl_units : dl_units[it].pc \in {"get", "bytes", "write", "sleep"}}

\* line 271: the parallel iteration begins
DownloadStart ==
    /\ mainpc = "download"
    /\ dl_units' = [it \in Items(Returned) |->
                        [pc |-> "idle", fails |-> 0, file_path |-> <<>>]]
    /\ \E U \in SUBSET Members(Returned) : unreachable' = U
    /\ mainpc' = "downloading"
    /\ UNCHANGED <<crawlVars, dl_links, fs, decVars>>

\* lines 273-303: a worker takes an item; dl_url_paths, create_dir_all
DlStart(it) ==
    /\ mainpc = "downloading"
    /\ dl_units[it].pc = "idle"
    /\ Cardinality(ActiveDl) < NumWorkers
    /\ IF dl_url_paths[it[1]] # Nothing
       THEN /\ dl_units' = [dl_units EXCEPT
                                ![it].pc = "get",
                                ![it].file_path = dl_url_paths[it[1]][1].file_path]
            /\ UNCHANGED mainpc
       ELSE \* line 257: captures(dl_url).unwrap() panics
            /\ dl_units' = [dl_units EXCEPT ![it].pc = "panicked"]
            /\ mainpc' = "aborted"
    /\ UNCHANGED <<crawlVars, dl_links, unreachable, fs, decVars>>

\* a failed fetch ending the unit in place of the retry
AfterFetchErrGiveUp(unit) == [unit EXCEPT !.pc = "done"]

\* the unit after a failed reqwest::blocking::get or a failed bytes(): the
\* `if let Ok` falls through to the sleep that ends the loop body; `fails`
\* counts the failed attempts up to MaxFails
AfterFetchErr(unit) ==
    [unit EXCEPT !.pc = "sleep",
                 !.fails = IF unit.fails < MaxFails THEN unit.fails + 1
                           ELSE unit.fails]

\* line 308: get(dl_url) is Ok
DlGetOk(it) ==
    /\ mainpc = "downloading"
    /\ dl_units[it].pc = "get"
    /\ it[1] \notin unreachable
    /\ dl_units' = [dl_units EXCEPT ![it].pc = "bytes"]
    /\ UNCHANGED <<mainpc, crawlVars, dl_links, unreachable, fs, decVars>>

\* the host fails a URL that is not unreachable at most MaxFails times
MayFail(it) == it[1] \in unreachable \/ dl_units[it].fails < MaxFails

\* line 308: get(dl_url) is Err
DlGetErr(it) ==
    /\ mainpc = "downloading"
    /\ dl_units[it].pc = "get"
    /\ MayFail(it)
    /\ dl_units' = [dl_units EXCEPT ![it] = AfterFetchErr(@)]
    /\ UNCHANGED <<mainpc, crawlVars, dl_links, unreachable, fs, decVars>>

\* line 309: response.bytes() is Ok
DlBytesOk(it) ==
    /\ mainpc = "downloading"
    /\ dl_units[it].pc = "bytes"
    /\ it[1] \notin unreachable
    /\ dl_units' = [dl_units EXCEPT ![it].pc = "write"]
    /\ UNCHANGED <<mainpc, crawlVars, dl_links, unreachable, fs, decVars>>

\* line 309: response.bytes() is Err
DlBytesErr(it) ==
    /\ mainpc = "downloading"
    /\ dl_units[it].pc = "bytes"
    /\ MayFail(it)
    /\ dl_units' = [dl_units EXCEPT ![it] = AfterFetchErr(@)]
    /\ UNCHANGED <<mainpc, crawlVars, dl_links, unreachable, fs, decVars>>

\* lines 310-314: File::create(file_path), write_all(&file_bytes), break.
\* The working directory is taken to accept the downloads: create_dir_all,
\* File::create and write_all of download_files succeed.
DlWrite(it) ==
    /\ mainpc = "downloading"
    /\ dl_units[it].pc = "write"
    /\ fs' = FsWrite(fs, dl_units[it].file_path, Body(it[1]))
    /\ dl_units' = [dl_units EXCEPT ![it].pc = "done"]
    /\ UNCHANGED <<mainpc, crawlVars, dl_links, unreachable, decVars>>

\* line 318: thread::sleep(1 s), then the loop body again
DlSleep(it) ==
    /\ mainpc = "downloading"
    /\ dl_units[it].pc = "sleep"
    /\ dl_units' = [dl_units EXCEPT ![it].pc = "get"]
    /\ UNCHANGED <<mainpc, crawlVars, dl_links, unreachable, fs, decVars>>

\* download_files returning while closures of the for_each still run
DownloadReturnEarly ==
    /\ mainpc = "downloading"
    /\ mainpc' = "decode"
    /\ UNCHANGED <<crawlVars, dlVars, fs, decVars>>

\* line 320: every closure has returned, download_files returns
DownloadReturn ==
    /\ mainpc = "downloading"
    /\ \A it \in DOMAIN dl_units : dl_units[it].pc = "done"
    /\ mainpc' = "decode"
    /\ UNCHANGED <<crawlVars, dlVars, fs, decVars>>

\* the lock guards alive between two steps.  In scrape_web every guard is a
\* temporary of one statement (lines 134-138, 184, 207) and is dropped
\* inside the step that takes it.  In download_files the read guard of
\* dl_links.read().unwrap() is a temporary of the statement of lines
\* 271-320: main's thread holds it until for_each has returned.
LocksHeld == IF mainpc = "downloading" THEN {"dl_links.read"} ELSE {}

\* a thread or a closure is at a network call or at a file call
InNetworkOrFileCall ==
    \/ \E t \in 1..Len(threads) :
          \/ threads[t].pc = "get"
          \/ threads[t].pc = "probe" /\ threads[t].todo # {}
    \/ \E it \in DOMAIN dl_units : dl_units[it].pc \in {"get", "bytes", "write"}

\* the steps of the closure of item `it`
DlUnitStep(it) ==
    \/ DlStart(it)
    \/ DlGetOk(it)
    \/ DlGetErr(it)
    \/ DlBytesOk(it)
    \/ DlBytesErr(it)
    \/ DlWrite(it)
    \/ DlSleep(it)

DownloadNext ==
    \/ DownloadStart
    \/ \E it \in DOMAIN dl_units : DlUnitStep(it)
    \/ DownloadReturn

(***************************************************************************)
(* decode_files, on the rayon pool like download_files.                    *)
(***************************************************************************)
\* DirEntry::file_name: the last component of the path
FileName(path) ==
    IF Positions(path, "\\") = {} THEN path
    ELSE SubSeq(path, Max(Positions(path, "\\")) + 1, Len(path))

\* lines 327-331: the entries whose trimmed name ends with ".bz2"
WalkDir(f) == {path \in DOMAIN f : EndsWith(Trim(FileName(path)), BZ2_SUFFIX)}

\* line 351: file_name_path.replace(".bz2", "")
OutputNamePath(path) == Replace(path, BZ2_SUFFIX, <<>>)

\* MultiBzDecoder::read_to_end succeeds on a well-formed bzip2 stream
Decodes(content) == content.z /\ content.ok

\* the bytes decode_block leaves in decoded_block
DecodedBlock(content) == [z |-> FALSE, ok |-> TRUE, id |-> content.id]

\* the content of a file that File::create has just created or truncated
EmptyFile == [z |-> FALSE, ok |-> TRUE, id |-> <<>>]

ActiveDec ==
    {f \in DOMAIN dec_units :
        dec_units[f].pc \in {"decode", "create", "write", "remove"}}

\* lines 327-343: WalkDir, then the parallel iteration begins
DecodeStart ==
    /\ mainpc = "decode"
    /\ dirs' = WalkDir(fs)
    /\ dec_units' = [f \in WalkDir(fs) |->
                        [pc |-> "idle", block |-> EmptyFile, outcome |-> NONE]]
    /\ mainpc' = "decoding"
    /\ UNCHANGED <<crawlVars, dlVars, fs, corrupt_files>>

\* line 354: a worker takes an entry, File::open is Ok
DecOpenOk(f) ==
    /\ mainpc = "decoding"
    /\ dec_units[f].pc = "idle"
    /\ Cardinality(ActiveDec) < NumWorkers
    /\ f \in DOMAIN fs
    /\ dec_units' = [dec_units EXCEPT ![f].pc = "decode"]
    /\ UNCHANGED <<mainpc, crawlVars, dlVars, fs, dirs, corrupt_files>>

\* line 354: File::open is Err, the closure returns
DecOpenErr(f) ==
    /\ mainpc = "decoding"
    /\ dec_units[f].pc = "idle"
    /\ Cardinality(ActiveDec) < NumWorkers
    /\ dec_units' = [dec_units EXCEPT ![f].pc = "done", ![f].outcome = "open_err"]
    /\ UNCHANGED <<mainpc, crawlVars, dlVars, fs, dirs, corrupt_files>>

\* lines 358-359: decode_block is Ok
DecDecodeOk(f) ==
    /\ mainpc = "decoding"
    /\ dec_units[f].pc = "decode"
    /\ Decodes(fs[f])
    /\ dec_units' = [dec_units EXCEPT ![f].pc = "create",
                                      ![f].block = DecodedBlock(fs[f])]
    /\ UNCHANGED <<mainpc, crawlVars, dlVars, fs, dirs, corrupt_files>>

\* the error branch without its `return`: the unit goes on to File::create
AfterDecodeErrNoReturn(unit) == [unit EXCEPT !.pc = "create", !.outcome = "decode_err"]

\* the unit after a failed decode_block: `return` (line 362)
AfterDecodeErr(unit) == [unit EXCEPT !.pc = "done", !.outcome = "decode_err"]

\* lines 360-363: decode_block is Err: the name is recorded, return
DecDecodeErr(f) ==
    /\ mainpc = "decoding"
    /\ dec_units[f].pc = "decode"
    /\ ~Decodes(fs[f])
    /\ corrupt_files' = corrupt_files \cup {FileName(f)}
    /\ dec_units' = [dec_units EXCEPT ![f] = AfterDecodeErr(@)]
    /\ UNCHANGED <<mainpc, crawlVars, dlVars, fs, dirs>>

\* line 400: File::create(output_name_path) is Ok
DecCreateOk(f) ==
    /\ mainpc = "decoding"
    /\ dec_units[f].pc = "create"
    /\ fs' = FsWrite(fs, OutputNamePath(f), EmptyFile)
    /\ dec_units' = [dec_units EXCEPT ![f].pc = "write"]
    /\ UNCHANGED <<mainpc, crawlVars, dlVars, dirs, corrupt_files>>

\* line 400: File::create is Err, unwrap panics
DecCreateErr(f) ==
    /\ mainpc = "decoding"
    /\ dec_units[f].pc = "create"
    /\ dec_units' = [dec_units EXCEPT ![f].pc = "panicked", ![f].outcome = "create_err"]
    /\ UNCHANGED <<mainpc, crawlVars, dlVars, fs, dirs, corrupt_files>>

\* line 402: write_all is Ok
DecWriteOk(f) ==
    /\ mainpc = "decoding"
    /\ dec_units[f].pc = "write"
    /\ fs' = FsWrite(fs, OutputNamePath(f), dec_units[f].block)
    /\ dec_units' = [dec_units EXCEPT ![f].pc = "remove", ![f].outcome = "written"]
    /\ UNCHANGED <<mainpc, crawlVars, dlVars, dirs, corrupt_files>>

\* lines 402-407: write_all is Err: the path is recorded
DecWriteErr(f) ==
    /\ mainpc = "decoding"
    /\ dec_units[f].pc = "write"
    /\ corrupt_files' = corrupt_files \cup {f}
    /\ dec_units' = [dec_units EXCEPT ![f].pc = "remove", ![f].outcome = "write_err"]
    /\ UNCHANGED <<mainpc, crawlVars, dlVars, fs, dirs>>

\* line 410: fs::remove_file(file_name_path) is Ok
DecRemoveOk(f) ==
    /\ mainpc = "decoding"
    /\ dec_units[f].pc = "remove"
    /\ fs' = FsRemove(fs, f)
    /\ dec_units' = [dec_units EXCEPT ![f].pc = "done"]
    /\ UNCHANGED <<mainpc, crawlVars, dlVars, dirs, corrupt_files>>

\* line 410: remove_file is Err, unwrap panics
DecRemoveErr(f) ==
    /\ mainpc = "decoding"
    /\ dec_units[f].pc = "remove"
    /\ dec_units' = [dec_units EXCEPT ![f].pc = "panicked"]
    /\ UNCHANGED <<mainpc, crawlVars, dlVars, fs, dirs, corrupt_files>>

\* line 412: every closure has returned, decode_files returns; main goes on
\* to the report (lines 472-496)
DecodeReturn ==
    /\ mainpc = "decoding"
    /\ \A f \in DOMAIN dec_units : dec_units[f].pc = "done"
    /\ mainpc' = "report"
    /\ UNCHANGED <<crawlVars, dlVars, fs, decVars>>

\* a closure panicked: rayon resumes the panic in main's thread once the
\* closures that run have ended
DecodeAbort ==
    /\ mainpc = "decoding"
    /\ \E f \in DOMAIN dec_units : dec_units[f].pc = "panicked"
    /\ ActiveDec = {}
    /\ mainpc' = "aborted"
    /\ UNCHANGED <<crawlVars, dlVars, fs, decVars>>

DecodeNext ==
    \/ DecodeStart
    \/ \E f \in DOMAIN dec_units :
          \/ DecOpenOk(f)
          \/ DecOpenErr(f)
          \/ DecDecodeOk(f)
          \/ DecDecodeErr(f)
          \/ DecCreateOk(f)
          \/ DecCreateErr(f)
          \/ DecWriteOk(f)
          \/ DecWriteErr(f)
          \/ DecRemoveOk(f)
          \/ DecRemoveErr(f)
    \/ DecodeReturn
    \/ DecodeAbort

(***************************************************************************)
(* The files the working directory holds when the program starts.          *)
(***************************************************************************)
F_NESTED == <<".","\\","a",".","b","z","2",".","b","z","2">>
F_BAD == <<".","\\","k",".","b","z","2">>

LocalFiles ==
    [path \in {F_NESTED, F_BAD} |->
        [z |-> TRUE, ok |-> path # F_BAD, id |-> path]]

CrawlNext ==
    \/ ScrapeStart
    \/ ScrapeStartFail
    \/ LoopEnter
    \/ DispatchSkip
    \/ DispatchSpawn
    \/ DispatchEnd
    \/ JoinOk
    \/ JoinPanic
    \/ JoinEnd
    \/ \E t \in 1..Len(threads) :
          \/ ThreadInsert(t)
          \/ ThreadInsertAlt(t)
          \/ ThreadGet(t)
          \/ ThreadGetFail(t)
          \/ \E i \in threads[t].todo : ThreadProbe(t, i) \/ ThreadProbeFail(t, i)
    \/ ScrapeReturn

Init ==
    /\ mainpc = "scrape"
    /\ visited_paths = {}
    /\ unvisited_paths = <<>>
    /\ download_links = EmptySet
    /\ handler = <<>>
    /\ threads = <<>>
    /\ remaining = 0
    /\ wave = 0
    /\ fetched = {}
    /\ crawl_error = FALSE
    /\ dl_links = Nothing
    /\ dl_units = <<>>
    /\ unreachable = {}
    /\ fs = LocalFiles
    /\ dirs = {}
    /\ dec_units = <<>>
    /\ corrupt_files = {}

Next == CrawlNext \/ DownloadNext \/ DecodeNext

Spec == Init /\ [][Next]_vars

(***************************************************************************)
(* Claims about scrape_web.                                                *)
(***************************************************************************)
\* the listing paths linked from S by links that carry no excluded marker
\* and take the first branch of the classification
RecurseStep(S) ==
    S \cup UNION {{RemoteLinks(p)[i].path :
                      i \in {j \in 1..Len(RemoteLinks(p)) :
                                /\ NoMarker(RemoteLinks(p)[j].path)
                                /\ IsRecurse(RemoteLinks(p)[j].path)}} : p \in S}

RECURSIVE RecurseClosure(_)
RecurseClosure(S) == IF RecurseStep(S) = S THEN S ELSE RecurseClosure(RecurseStep(S))

ReachableListings == RecurseClosure({UrlPath(DL_URL)}) \ SeedVisited

\* the other spelling of a path: with or without the trailing separator
OtherSpelling(path) ==
    IF EndsWith(path, SLASH) THEN ChopLast(path) ELSE path \o SLASH

\* scrape_web is about to return Ok(download_links)
CrawlComplete == mainpc = "loop" /\ unvisited_paths = <<>>

\* C1: when scrape_web completes, every listing path reachable from the root
\* through links that pass the filter and are classified Recurse has been
\* fetched (in one of its two spellings), and every link of a fetched page
\* that passes the filter and is classified Download is in download_links.
C1_CrawlDiscoversEverything ==
    CrawlComplete =>
        /\ \A p \in ReachableListings : p \in fetched \/ OtherSpelling(p) \in fetched
        /\ \A p \in fetched : \A i \in 1..Len(RemoteLinks(p)) :
              LET l == RemoteLinks(p)[i]
              IN  (NoMarker(l.path) /\ IsDownload(l.path) /\ l.path \notin SeedVisited)
                      => MkUrl(l.scheme, l.host, l.path) \in Members(download_links)

\* C2: a thread of a later wave exists only when every thread of the earlier
\* waves has ended, has been joined and has had its new_paths appended to
\* unvisited_paths.
C2_WaveBarrier ==
    \A t \in 1..Len(threads) :
        threads[t].wave < wave => Finished(t) /\ threads[t].joined

C2_Witness ==
    /\ \E u \in 1..Len(threads) : threads[u].wave = 3 /\ threads[u].pc = "get"
    /\ Cardinality({t \in 1..Len(threads) : threads[t].wave = 2}) >= 4

\* C3: once a fetch or a probe of the crawl has failed, scrape_web returns no
\* download links and neither download_files nor decode_files starts: main
\* is still inside the wave of the failure, or the process has ended.
C3_FailureAbortsCrawl ==
    crawl_error =>
        /\ mainpc \in {"dispatch", "join", "aborted"}
        /\ dl_links = Nothing
        /\ dl_units = <<>>
        /\ dec_units = <<>>

C3_Witness ==
    /\ mainpc = "aborted"
    /\ crawl_error
    /\ wave = 3
    /\ Members(download_links) # {}
    /\ dl_links = Nothing

\* C4: no path whose URL is in download_links is in the frontier
\* (unvisited_paths) or in a thread's buffer of paths for the next wave.
C4_DownloadsNotInFrontier ==
    \A u \in Members(download_links) :
        /\ UrlPath(u) \notin Range(unvisited_paths)
        /\ \A t \in 1..Len(threads) : UrlPath(u) \notin Range(threads[t].new_paths)

C4_Witness ==
    /\ MkUrl(SCHEME, HOST, P_M) \in Members(download_links)
    /\ P_E \in Range(unvisited_paths)
    /\ mainpc = "loop"

\* C5: every URL is one member of the set of download links, during the
\* crawl and in the value returned, and download_files runs one unit for it.
C5_OneUnitPerUrl ==
    /\ \A u \in Members(download_links) : download_links[u] = 1
    /\ dl_links # Nothing =>
          /\ \A u \in Members(Returned) : Returned[u] = 1
          /\ mainpc \in {"downloading", "decode", "decoding", "report"} =>
                \A u \in Members(Returned) :
                    Cardinality({it \in DOMAIN dl_units : it[1] = u}) = 1

\* two threads of one wave explore /c/s/d/ and both have found the link m.bz2
C5_Witness ==
    \E t1, t2 \in 1..Len(threads) :
        /\ t1 # t2
        /\ threads[t1].wave = threads[t2].wave
        /\ threads[t1].curr_path = P_D /\ threads[t2].curr_path = P_D
        /\ threads[t1].pc = "probe" /\ threads[t2].pc = "probe"
        /\ 1 \notin threads[t1].todo /\ 1 \notin threads[t2].todo
        /\ download_links[MkUrl(SCHEME, HOST, P_M)] = 1

(***************************************************************************)
(* download_files alone, from the sets of links scrape_web returns for     *)
(* this host, with the fairness of its execution: a free worker of the     *)
(* pool takes an item, a running closure takes its next step and a request *)
(* gets its answer.                                                        *)
(***************************************************************************)
AllItems == {<<MkUrl(SCHEME, HOST, p), 1>> : p \in {P_M, P_Z, P_F}}

DownloadInit ==
    /\ mainpc = "download"
    /\ visited_paths = {}
    /\ unvisited_paths = <<>>
    /\ download_links = EmptySet
    /\ handler = <<>>
    /\ threads = <<>>
    /\ remaining = 0
    /\ wave = 0
    /\ fetched = {}
    /\ crawl_error = FALSE
    /\ \E S \in SUBSET AllItems :
          /\ S # {}
          /\ dl_links = Some([u \in {it[1] : it \in S} |-> 1])
    /\ dl_units = <<>>
    /\ unreachable = {}
    /\ fs = LocalFiles
    /\ dirs = {}
    /\ dec_units = <<>>
    /\ corrupt_files = {}

DownloadFairness ==
    /\ WF_vars(DownloadStart)
    /\ WF_vars(DownloadReturn)
    /\ \A it \in AllItems : WF_vars(it \in DOMAIN dl_units /\ DlUnitStep(it))

DownloadSpec == DownloadInit /\ [][DownloadNext]_vars /\ DownloadFairness

\* the body of the URL of item `it` is in its local file
Written(it) ==
    /\ dl_units[it].file_path \in DOMAIN fs
    /\ fs[dl_units[it].file_path] = Body(it[1])

PcOf(units, it) == IF it \in DOMAIN units THEN units[it].pc ELSE "none"

C7_OthersStillDownloaded ==
    \A it \in AllItems :
        [](( /\ mainpc = "downloading"
             /\ it \in DOMAIN dl_units
             /\ it[1] \notin unreachable )
              => <>(PcOf(dl_units, it) = "done" /\ Written(it)))

(***************************************************************************)
(* Claims about decode_files.                                              *)
(***************************************************************************)
\* C8: when the decoded output of an entry could not be written, the entry
\* is in corrupt_files and its compressed file is still there.
C8_WriteFailureKeepsSource ==
    \A f \in DOMAIN dec_units :
        (dec_units[f].outcome = "write_err" /\ dec_units[f].pc = "done")
            => /\ f \in corrupt_files \/ FileName(f) \in corrupt_files
               /\ f \in DOMAIN fs

\* C9: when decode_block fails on an entry, the closure ends there: the name
\* is in corrupt_files, the compressed file is still there with its content,
\* and no output file has been created for it.
C9_DecodeFailureKeepsSource ==
    \A f \in DOMAIN dec_units :
        dec_units[f].outcome = "decode_err"
            => /\ dec_units[f].pc = "done"
               /\ FileName(f) \in corrupt_files
               /\ f \in DOMAIN fs
               /\ fs[f] = LocalFiles[f]
               /\ OutputNamePath(f) \notin DOMAIN fs

C9_Witness ==
    /\ mainpc = "report"
    /\ dec_units[F_BAD].outcome = "decode_err"
    /\ \E f \in DOMAIN dec_units : dec_units[f].outcome = "written"

\* C10: when an entry has been decoded and written, the decoded bytes are at
\* the entry's path without its trailing ".bz2", and the compressed file is
\* gone.
C10_OutputAtStrippedPath ==
    \A f \in DOMAIN dec_units :
        (dec_units[f].outcome = "written" /\ dec_units[f].pc = "done")
            => LET P == SubSeq(f, 1, Len(f) - Len(BZ2_SUFFIX))
               IN  /\ f \notin DOMAIN fs
                   /\ P \in DOMAIN fs
                   /\ fs[P].id = f

\* C11: an error on one entry never aborts the pass and is recorded: no
\* closure of decode_files panics, and a closure that ended on a failure to
\* open, decode, create or write its entry has the entry in corrupt_files.
C11_DecodeErrorsIsolated ==
    \A f \in DOMAIN dec_units :
        /\ dec_units[f].pc # "panicked"
        /\ (dec_units[f].pc = "done" /\ dec_units[f].outcome # "written")
              => f \in corrupt_files \/ FileName(f) \in corrupt_files

ProbeInit ==
    /\ mainpc = "join"
    /\ wave = 1
    /\ \E p \in ProbePaths :
          /\ threads = <<[NewThread(P_ROOT) EXCEPT
                             !.wave = 1, !.pc = "probe",
                             !.links = <<Link(p)>>, !.todo = {1}]>>
          /\ \E v \in SUBSET {p} :
                visited_paths = SeedVisited \cup {P_ROOT, ChopLast(P_ROOT)} \cup v
    /\ unvisited_paths = <<>>
    /\ download_links = EmptySet
    /\ handler = <<1>>
    /\ remaining = 0
    /\ fetched = {P_ROOT}
    /\ crawl_error = FALSE
    /\ dl_links = Nothing
    /\ dl_units = <<>>
    /\ unreachable = {}
    /\ fs = LocalFiles
    /\ dirs = {}
    /\ dec_units = <<>>
    /\ corrupt_files = {}

ProbeNext ==
    \/ \E t \in 1..Len(threads) : \E i \in threads[t].todo : ThreadProbe(t, i)
    \/ JoinOk
    \/ JoinEnd

ProbeSpec == ProbeInit /\ [][ProbeNext]_vars

\* C13: no URL whose path contains the mirror marker and ends with the
\* separator is in download_links.
C13_NoMirrorDirectoryDownloaded ==
    \A u \in Members(download_links) :
        Contains(UrlPath(u), REDIRECT_LINK) => ~EndsWith(UrlPath(u), SLASH)

\* C14: a probed link whose path is not visited and carries no excluded
\* marker, and whose URL is not in download_links, has its path in the
\* thread's new_paths or, after the join, in unvisited_paths.
C14_NoLinkDropped ==
    \A t \in 1..Len(threads) :
        \A i \in (1..Len(threads[t].links)) \ threads[t].todo :
            LET l == threads[t].links[i]
            IN  ( /\ l.path \notin visited_paths
                  /\ ~Contains(l.path, INDEX_HTML)
                  /\ ~Contains(l.path, DOT_TMP)
                  /\ ~Contains(l.path, DOT_ZTMP)
                  /\ MkUrl(l.scheme, l.host, l.path) \notin Members(download_links) )
                    => l.path \in Range(threads[t].new_paths) \cup Range(unvisited_paths)

\* C15: no path that contains "index.html", ".tmp" or ".ztmp" is in
\* download_links, in a thread's new_paths or in unvisited_paths.
C15_MarkedLinksExcluded ==
    \A p \in {UrlPath(u) : u \in Members(download_links)}
             \cup UNION {Range(threads[t].new_paths) : t \in 1..Len(threads)}
             \cup Range(unvisited_paths) :
        /\ ~Contains(p, INDEX_HTML)
        /\ ~Contains(p, DOT_TMP)
        /\ ~Contains(p, DOT_ZTMP)

\* the link to an unvisited path with ".ztmp" under the mirror has been
\* probed and the thread has been joined
C15_Witness ==
    /\ mainpc = "loop"
    /\ Len(threads) = 1
    /\ threads[1].joined
    /\ Contains(threads[1].links[1].path, DOT_ZTMP)
    /\ Contains(threads[1].links[1].path, REDIRECT_LINK)
    /\ threads[1].links[1].path \notin visited_paths

\* C16: while scrape_web runs, visited_paths never loses a path and a path
\* popped from unvisited_paths is visited already or is the path of the
\* thread spawned for it; when the crawl ends, visited_paths contains "/",
\* the parent of the root with and without its last "/", and the path of
\* every thread.
C16_VisitedGrows ==
    /\ [][(mainpc \in {"loop", "dispatch", "join"}
             /\ mainpc' \in {"loop", "dispatch", "join"})
            => /\ visited_paths \subseteq visited_paths'
               /\ (mainpc = "dispatch" /\ unvisited_paths' # unvisited_paths)
                     => LET curr_path == unvisited_paths[Len(unvisited_paths)]
                        IN  \/ curr_path \in visited_paths'
                            \/ /\ Len(threads') = Len(threads) + 1
                               /\ threads'[Len(threads')].curr_path = curr_path]_vars
    /\ [](CrawlComplete
            => /\ {SLASH, P_PARENT, ChopLast(P_PARENT)} \subseteq visited_paths
               /\ \A t \in 1..Len(threads) : threads[t].curr_path \in visited_paths)

\* the crawl has ended after three waves, and a popped path was skipped
C16_Witness ==
    /\ CrawlComplete
    /\ wave = 3
    /\ Len(threads) = 4
    /\ P_E \in visited_paths

(***************************************************************************)
(* download_files on a set of one link, for every link of DerivUrls.       *)
(***************************************************************************)
DerivInit ==
    /\ mainpc = "download"
    /\ visited_paths = {}
    /\ unvisited_paths = <<>>
    /\ download_links = EmptySet
    /\ handler = <<>>
    /\ threads = <<>>
    /\ remaining = 0
    /\ wave = 0
    /\ fetched = {}
    /\ crawl_error = FALSE
    /\ \E url \in DerivUrls : dl_links = Some([u \in {url} |-> 1])
    /\ dl_units = <<>>
    /\ unreachable = {}
    /\ fs = LocalFiles
    /\ dirs = {}
    /\ dec_units = <<>>
    /\ corrupt_files = {}

DerivSpec == DerivInit /\ [][DownloadNext]_vars

\* C17: for the URL of every unit that has started, dl_url_paths gave the
\* paths: the file path is the working directory followed by the path of
\* the URL, and the directory is the file path without its last component
\* (the separator is the one the code writes, "\").
C17_PathsMirrorUrl ==
    \A it \in DOMAIN dl_units :
        dl_units[it].pc # "idle"
            => LET file == CWD \o ReplaceChar(UrlPath(it[1]), "/", "\\")
                   dir == SubSeq(file, 1, Max(Positions(file, "\\")) - 1)
               IN  /\ dl_units[it].pc # "panicked"
                   /\ dl_url_paths[it[1]] # Nothing
                   /\ dl_units[it].file_path = file
                   /\ dl_url_paths[it[1]][1].dir_path = dir

\* C18: a thread that has made its two inserts has put its path with and
\* without the trailing "/" into visited_paths, and visited_paths holds
\* nothing but the seeds and these two spellings of the threads' paths.
C18_BothSpellingsMarked ==
    Running =>
        /\ \A t \in 1..Len(threads) :
              threads[t].pc \in {"get", "probe"}
                  => {threads[t].curr_path, OtherSpelling(threads[t].curr_path)}
                         \subseteq visited_paths
        /\ visited_paths \subseteq
              SeedVisited \cup UNION {{threads[t].curr_path,
                                       OtherSpelling(threads[t].curr_path)} :
                                         t \in 1..Len(threads)}

\* C19: no lock of visited_paths or of the set of download links is held
\* while a network call or a file call is in progress.
C19_NoLockAcrossCalls == InNetworkOrFileCall => LocksHeld = {}

(***************************************************************************)
(* scrape_web on a host whose every fetch and probe succeeds, with the     *)
(* fairness of its execution: main's thread and every spawned thread take  *)
(* their next step.                                                        *)
(***************************************************************************)
CrawlOkNext ==
    \/ ScrapeStart
    \/ LoopEnter
    \/ DispatchSkip
    \/ DispatchSpawn
    \/ DispatchEnd
    \/ JoinOk
    \/ JoinEnd
    \/ \E t \in 1..Len(threads) :
          \/ ThreadInsert(t)
          \/ ThreadInsertAlt(t)
          \/ ThreadGet(t)
          \/ \E i \in threads[t].todo : ThreadProbe(t, i)
    \/ ScrapeReturn

CrawlOkSpec == Init /\ [][CrawlOkNext]_vars /\ WF_vars(CrawlOkNext)

\* C20: scrape_web returns the set of download links in the end, and no path
\* is the path of threads of two waves.
C20_CrawlTerminates ==
    /\ <>(mainpc = "download" /\ dl_links # Nothing)
    /\ [](\A t1, t2 \in 1..Len(threads) :
            threads[t1].curr_path = threads[t2].curr_path
                => threads[t1].wave = threads[t2].wave)

\* the crawl has returned after the page /c/s/d/e/, which links back to
\* /c/s/d/, was fetched
C20_Witness ==
    /\ mainpc = "download"
    /\ dl_links # Nothing
    /\ MkUrl(SCHEME, HOST, P_Z) \in Members(Returned)

\* the Download URLs linked from the listings reachable from the root: what
\* scrape_web returns when no path is skipped by the dispatch check
TreeDownloads ==
    UNION {{MkUrl(RemoteLinks(p)[i].scheme, RemoteLinks(p)[i].host,
                  RemoteLinks(p)[i].path) :
               i \in {j \in 1..Len(RemoteLinks(p)) :
                         /\ NoMarker(RemoteLinks(p)[j].path)
                         /\ IsDownload(RemoteLinks(p)[j].path)
                         /\ RemoteLinks(p)[j].path \notin SeedVisited}} :
           p \in ReachableListings}

\* scrape_web has returned Ok(download_links) to main
CrawlReturned == mainpc = "download" /\ dl_links # Nothing

\* C21: on a host whose every request succeeds, the set scrape_web returns
\* is the same whatever the interleaving of the dispatch loop, the threads
\* and their probes: every run returns the set that the run of C21_Witness
\* returns.
C21_SameDownloadsEveryInterleaving ==
    CrawlReturned => Members(Returned) = TreeDownloads

\* a run in which /c/s/a was dispatched before the thread of /c/s/ab marked
\* it: the returned set holds the link of the page /c/s/a
C21_Witness ==
    /\ CrawlReturned
    /\ Members(Returned) = TreeDownloads
    /\ MkUrl(SCHEME, HOST, P_F) \in Members(Returned)

====
